---- MODULE Spec2Model ----
(***************************************************************************)
(* Model of the pacemaker helper (plugins/module_utils/pacemaker_helper.py) *)
(* and of the pacemaker_cluster_resource module                             *)
(* (plugins/modules/pacemaker_cluster_resource.py).                         *)
(*                                                                          *)
(* Text is a sequence of one-character strings.  A Python exception that   *)
(* nothing catches ends the call; it is recorded as the outcome            *)
(* [kind |-> "raise", exc |-> <exception class>].                          *)
(*                                                                          *)
(* Both files read things they never define: the global name `s`           *)
(* (pacemaker_helper.py:24), the global name `resources`                    *)
(* (pacemaker_cluster_resource.py:232,244) and the key 'resource_options'   *)
(* of module.params (pacemaker_cluster_resource.py:220, absent from the     *)
(* argument_spec of lines 185-208).  Each such read is a choice of the     *)
(* environment, fixed in Init: either the name is unbound and the read     *)
(* raises (NameError, KeyError), which is what the source alone gives, or   *)
(* it is bound to a value the source does not control.                      *)
(*                                                                          *)
(* Three expressions of the source do not compile as written               *)
(* (pacemaker_helper.py:37 lacks a closing brace,                           *)
(* pacemaker_cluster_resource.py:120,152 close a subscript with a           *)
(* parenthesis).  They are read with the bracket that their opening         *)
(* bracket requires.                                                        *)
(***************************************************************************)
EXTENDS Naturals, Sequences, FiniteSets

VARIABLES resource_string, s, stack, pc, outcome,
          params, check_mode, resources, cluster, issued, result

vars == <<resource_string, s, stack, pc, outcome,
          params, check_mode, resources, cluster, issued, result>>

helperVars == <<resource_string, s, stack, pc, outcome>>
moduleVars == <<params, check_mode, resources, cluster, issued, result>>

-----------------------------------------------------------------------------
(* Bounds *)

MaxLines == 3

MaxIndent == 1

-----------------------------------------------------------------------------
(* Values *)

Unbound == [bound |-> FALSE]

Bound(v) == [bound |-> TRUE, v |-> v]

NoOutcome == [kind |-> "none"]

Raise(e) == [kind |-> "raise", exc |-> e]

Return(v) == [kind |-> "return", value |-> v]

NoPending == [form |-> "none"]

Spaces(n) == [i \in 1..n |-> " "]

Whitespace == {" ", "\n"}

-----------------------------------------------------------------------------
(* str methods and re.search, as the helper uses them *)

\* line.startswith(prefix)
StartsWith(line, prefix) ==
    /\ Len(prefix) <= Len(line)
    /\ \A i \in 1..Len(prefix) : line[i] = prefix[i]

\* re.search(r"^\s*", text).end(): the length of the leading whitespace run
MatchEnd(text) ==
    CHOOSE n \in 0..Len(text) :
        /\ \A i \in 1..n : text[i] \in Whitespace
        /\ n < Len(text) => text[n + 1] \notin Whitespace

\* text.split(sep) for a one-character separator: never empty, "" gives [""]
RECURSIVE Split(_, _)
Split(text, sep) ==
    IF \A i \in 1..Len(text) : text[i] # sep
    THEN <<text>>
    ELSE LET k == CHOOSE i \in 1..Len(text) :
                      /\ text[i] = sep
                      /\ \A j \in 1..(i - 1) : text[j] # sep
         IN <<SubSeq(text, 1, k - 1)>> \o Split(SubSeq(text, k + 1, Len(text)), sep)

-----------------------------------------------------------------------------
(* pacemaker_helper.py *)

\* _count_indentation(line): searches the global `s`, not its argument
_count_indentation(line) ==
    IF s.bound THEN Return(MatchEnd(s.v)) ELSE Raise("NameError")

\* the recursion handed the caller's own sequence instead of its tail
RemainderWhole(resource_string_array) == resource_string_array

\* resource_string_array[1:]
Remainder(resource_string_array) == Tail(resource_string_array)

\* One activation of _add_ansibilized_section, up to its recursive call:
\* lines 28-34.  Either a statement raises, or the activation calls itself
\* on (remainder, next_depth) with the binding of line 35 or 37 pending.
Body(resource_string_array, current_depth) ==
    IF Len(resource_string_array) < 1 THEN Raise("IndexError")
    ELSE IF Len(resource_string_array) < 2 THEN Raise("IndexError")
    ELSE
      LET line == resource_string_array[1]
          remainder == Remainder(resource_string_array)
          next_depth == _count_indentation(resource_string_array[2])
          parts == Split(line, ":")
      IN IF next_depth.kind = "raise" THEN next_depth
         ELSE IF ~StartsWith(line, Spaces(current_depth)) THEN Raise("AssertionError")
         ELSE IF Len(parts) # 2 THEN Raise("ValueError")
         ELSE [kind |-> "call",
               arr |-> remainder,
               depth |-> next_depth.value,
               pending |-> [form |-> IF Len(parts[2]) = 0 THEN "plain" ELSE "named",
                            name |-> parts[1],
                            value |-> parts[2]]]

Frame(arr, depth) == [arr |-> arr, depth |-> depth, pending |-> NoPending]

Top == stack[Len(stack)]

\* ansibilize_resource(resource_string): the top-level call at depth 0
ansibilize_resource ==
    /\ pc = "ready"
    /\ stack' = <<Frame(Split(resource_string, "\n"), 0)>>
    /\ pc' = "running"
    /\ UNCHANGED <<resource_string, s, outcome, moduleVars>>

\* lines 35 and 37: the recursive call; the caller's binding waits for it
_add_ansibilized_section_call ==
    /\ pc = "running"
    /\ LET b == Body(Top.arr, Top.depth)
       IN /\ b.kind = "call"
          /\ stack' = [stack EXCEPT ![Len(stack)].pending = b.pending]
                         \o <<Frame(b.arr, b.depth)>>
    /\ UNCHANGED <<resource_string, s, pc, outcome, moduleVars>>

\* an exception in lines 28-33: no activation handles it, the parse ends
_add_ansibilized_section_raise ==
    /\ pc = "running"
    /\ LET b == Body(Top.arr, Top.depth)
       IN /\ b.kind = "raise"
          /\ outcome' = b
    /\ pc' = "done"
    /\ UNCHANGED <<resource_string, s, stack, moduleVars>>

-----------------------------------------------------------------------------
(* Inputs of the helper *)

Names == {<<"f">>}

\* what follows the name on a line: nothing, or ':' and a value
Rests == {<<>>, <<":">>, <<":", "z">>}

Lines == {<<>>} \cup
         {Spaces(n) \o name \o rest :
              n \in 0..MaxIndent, name \in Names, rest \in Rests}

RECURSIVE Join(_)
Join(ls) ==
    IF Len(ls) = 0 THEN <<>>
    ELSE IF Len(ls) = 1 THEN ls[1]
    ELSE ls[1] \o <<"\n">> \o Join(Tail(ls))

LineSeqs == UNION {[1..n -> Lines] : n \in 0..MaxLines}

Inputs == {Join(ls) : ls \in LineSeqs}

SBindings == {Unbound} \cup {Bound(Spaces(n) \o <<"x">>) : n \in 0..MaxIndent}

IdleModule ==
    /\ params = [name |-> "None", state |-> "present", resource_options |-> Unbound]
    /\ check_mode = FALSE
    /\ resources = Unbound
    /\ cluster = {}
    /\ issued = <<>>
    /\ result = NoOutcome

Init ==
    /\ resource_string \in Inputs
    /\ s \in SBindings
    /\ stack = <<>>
    /\ pc = "ready"
    /\ outcome = NoOutcome
    /\ IdleModule

Next ==
    \/ ansibilize_resource
    \/ _add_ansibilized_section_call
    \/ _add_ansibilized_section_raise

Spec == Init /\ [][Next]_vars

\* a call that has started keeps running: the interpreter executes the next
\* statement of the running activation
FairSpec == Init /\ [][Next]_vars /\ WF_vars(Next)

-----------------------------------------------------------------------------
(* pacemaker_cluster_resource.py *)

\* module.exit_json(**result) and module.fail_json(**result): both end the run
ExitJson(changed) == [kind |-> "exit_json", changed |-> changed]

FailJson(changed) == [kind |-> "fail_json", changed |-> changed]

\* "pcs resource <verb> <name>" as a str, the form run_command executes
Cmd(verb, name) == [type |-> "str", verb |-> verb, name |-> name]

\* lines 120 and 152 rebind cmd to the tuple ("%s %s", (cmd, ...)):
\* not a command line, run_command refuses it through fail_json
TupleCmd(cmd) == [type |-> "tuple", verb |-> cmd.verb, name |-> cmd.name]

StateChanging == {"create", "update", "delete"}

\* pcs resource config <name>: prints the configuration of a resource of the
\* cluster with rc 0, prints nothing on stdout with rc 1 for any other name
PcsConfig(cl, name) ==
    IF name \in cl THEN [rc |-> 0, out |-> "config"] ELSE [rc |-> 1, out |-> ""]

\* get_resource(module, resource)
get_resource(cl, resource) ==
    LET r == PcsConfig(cl, resource)
    IN IF r.rc = 1
       THEN [resource |-> "None", msg |-> r.out, failed |-> TRUE]
       ELSE [resource |-> resource, msg |-> r.out, failed |-> FALSE]

\* A run of main is a record: the commands handed to run_command and
\* executed, the cluster they leave, and how the run ended.
Run(cmds, cl, res) == [issued |-> cmds, cluster |-> cl, result |-> res]

\* create_resource / update_resource(module, name, resource), after the
\* `pcs resource config` of the caller.  A list has no string subscripts
\* (line 119/151); line 120/152 always rebinds cmd to a tuple, so the
\* run_command of line 135/167 ends in fail_json with nothing executed.
ChangeResource(verb, cmds, cl, name, resource) ==
    IF resource = "list" THEN Run(cmds, cl, Raise("TypeError"))
    ELSE LET cmd == TupleCmd(Cmd(verb, name))
         IN IF cmd.type = "str"
            THEN Run(cmds \o <<cmd>>, cl \cup {name}, ExitJson(TRUE))
            ELSE Run(cmds, cl, FailJson(FALSE))

create_resource(cmds, cl, name, resource) ==
    ChangeResource("create", cmds, cl, name, resource)

update_resource(cmds, cl, name, resource) ==
    ChangeResource("update", cmds, cl, name, resource)

\* main(), lines 214-264.  delete_rc is the exit code pcs gives the delete.
Main(p, res, cl, delete_rc) ==
    IF ~p.resource_options.bound THEN Run(<<>>, cl, Raise("KeyError"))
    ELSE IF p.state = "relocated" THEN Run(<<>>, cl, Return("None"))
    ELSE IF p.name = "None" THEN Run(<<>>, cl, FailJson(FALSE))
    ELSE
      LET rsrc == get_resource(cl, p.name)
          cmds == <<Cmd("config", p.name)>>
      IN CASE p.state = "present" ->
                IF rsrc.msg # "" THEN Run(cmds, cl, ExitJson(FALSE))
                ELSE IF ~res.bound THEN Run(cmds, cl, Raise("NameError"))
                ELSE create_resource(cmds, cl, p.name, res.v)
           [] p.state = "updated" ->
                IF rsrc.msg = "" THEN Run(cmds, cl, Raise("KeyError"))
                ELSE IF ~res.bound THEN Run(cmds, cl, Raise("NameError"))
                ELSE update_resource(cmds, cl, p.name, res.v)
           [] p.state = "absent" ->
                IF rsrc.msg = "" THEN Run(cmds, cl, ExitJson(FALSE))
                ELSE IF delete_rc # 0
                     THEN Run(cmds \o <<Cmd("delete", p.name)>>, cl, FailJson(FALSE))
                     ELSE Run(cmds \o <<Cmd("delete", p.name)>>,
                              cl \ {p.name}, ExitJson(TRUE))

main ==
    /\ result = NoOutcome
    /\ \E delete_rc \in {0, 1} :
          LET r == Main(params, resources, cluster, delete_rc)
          IN /\ issued' = r.issued
             /\ cluster' = r.cluster
             /\ result' = r.result
    /\ UNCHANGED <<params, check_mode, resources, helperVars>>

-----------------------------------------------------------------------------
(* Inputs of the module *)

ResourceNames == {"r1", "r2"}

States == {"present", "updated", "absent", "relocated"}

IdleHelper ==
    /\ resource_string = <<>>
    /\ s = Unbound
    /\ stack = <<>>
    /\ pc = "idle"
    /\ outcome = NoOutcome

InitModule ==
    /\ params \in [name : ResourceNames \cup {"None"},
                   state : States,
                   resource_options : {Unbound, Bound("None")}]
    /\ check_mode \in BOOLEAN
    /\ resources \in {Unbound, Bound("list"), Bound("dict")}
    /\ cluster \in SUBSET ResourceNames
    /\ issued = <<>>
    /\ result = NoOutcome
    /\ IdleHelper

NextModule == main

SpecModule == InitModule /\ [][NextModule]_vars

-----------------------------------------------------------------------------
(* The parse the text describes, as far as the properties below need it *)

\* a returned mapping: its bindings in insertion order, a value being a
\* string or a nested mapping
Str(v) == [t |-> "str", v |-> v]

Dict(items) == [t |-> "dict", items |-> items]

InputLines == Split(resource_string, "\n")

HasColon(line) == \E i \in 1..Len(line) : line[i] = ":"

FirstColon(line) ==
    CHOOSE i \in 1..Len(line) : line[i] = ":" /\ \A j \in 1..(i - 1) : line[j] # ":"

\* text.strip()
Trim(text) ==
    IF \A i \in 1..Len(text) : text[i] \in Whitespace THEN <<>>
    ELSE LET a == CHOOSE i \in 1..Len(text) :
                      text[i] \notin Whitespace /\ \A j \in 1..(i - 1) : text[j] \in Whitespace
             b == CHOOSE i \in 1..Len(text) :
                      text[i] \notin Whitespace /\ \A j \in (i + 1)..Len(text) : text[j] \in Whitespace
         IN SubSeq(text, a, b)

IndentOf(line) == MatchEnd(line)

NameOf(line) == Trim(SubSeq(line, 1, FirstColon(line) - 1))

ValueOf(line) == Trim(SubSeq(line, FirstColon(line) + 1, Len(line)))

\* `name:` or `name:value` behind its indentation
WellShaped(line) == HasColon(line) /\ NameOf(line) # <<>>

IsLeaf(line) == WellShaped(line) /\ ValueOf(line) # <<>>

IsBranch(line) == WellShaped(line) /\ ValueOf(line) = <<>>

\* line i is indented as the lines before it require: deeper than a branch
\* right before it, otherwise at the indentation of an earlier line
NestedRight(ls, i) ==
    IF i = 1 THEN IndentOf(ls[1]) = 0
    ELSE IF IsBranch(ls[i - 1]) THEN IndentOf(ls[i]) > IndentOf(ls[i - 1])
    ELSE /\ IndentOf(ls[i]) <= IndentOf(ls[i - 1])
         /\ \E j \in 1..(i - 1) : IndentOf(ls[j]) = IndentOf(ls[i])

WellFormed(ls) ==
    /\ \A i \in 1..Len(ls) : WellShaped(ls[i]) /\ NestedRight(ls, i)
    /\ IsLeaf(ls[Len(ls)])

\* the nesting level of line i of a well-formed input
RECURSIVE LevelOf(_, _)
LevelOf(ls, i) ==
    IF i = 1 THEN 0
    ELSE IF IsBranch(ls[i - 1]) THEN LevelOf(ls, i - 1) + 1
    ELSE LevelOf(ls, CHOOSE j \in 1..(i - 1) :
                         /\ IndentOf(ls[j]) = IndentOf(ls[i])
                         /\ \A k \in (j + 1)..(i - 1) : IndentOf(ls[k]) # IndentOf(ls[i]))

\* the names a mapping binds with their nesting levels, in order; the keys
\* "name" and "value" of a branch binding are not names of the input
RECURSIVE BoundNames(_, _)
BoundNames(tree, level) ==
    LET RECURSIVE Walk(_)
        Walk(items) ==
            IF Len(items) = 0 THEN <<>>
            ELSE LET key == items[1][1]
                     val == items[1][2]
                 IN <<<<key, level>>>>
                    \o (IF val.t = "dict"
                        THEN BoundNames(val.items[2][2], level + 1)
                        ELSE <<>>)
                    \o Walk(Tail(items))
    IN Walk(tree.items)

-----------------------------------------------------------------------------
(* Properties of the helper *)

\* C1: a single line name:value with a non-empty value parses to the
\* one-entry mapping {name: value}, name being the text before the first ':'
\* and value the trimmed remainder, a plain string.
C1_SingleLeafLine ==
    (pc = "done" /\ Len(InputLines) = 1 /\ IsLeaf(InputLines[1])
                 /\ IndentOf(InputLines[1]) = 0)
        => /\ outcome.kind = "return"
           /\ outcome.value =
                Dict(<< <<NameOf(InputLines[1]), Str(ValueOf(InputLines[1]))>> >>)

\* C2: a line `name:` followed by one deeper-indented leaf `child:val` parses
\* to {name: {"name": "", "value": {child: val}}}.
C2_TwoLevel ==
    (pc = "done" /\ Len(InputLines) = 2 /\ WellFormed(InputLines)
                 /\ IsBranch(InputLines[1]))
        => /\ outcome.kind = "return"
           /\ outcome.value =
                Dict(<< <<NameOf(InputLines[1]),
                          Dict(<< <<"name", Str(<<>>)>>,
                                  <<"value",
                                    Dict(<< <<NameOf(InputLines[2]),
                                              Str(ValueOf(InputLines[2]))>> >>)>> >>)>> >>)

\* C3: when a branch line is followed by a line that is not indented deeper,
\* the parse ends in StructureError and returns no tree.
C3_StructureError ==
    (/\ pc = "done"
     /\ \A i \in 1..Len(InputLines) : WellShaped(InputLines[i])
     /\ \E i \in 1..(Len(InputLines) - 1) :
            /\ IsBranch(InputLines[i])
            /\ IndentOf(InputLines[i + 1]) <= IndentOf(InputLines[i]))
        => outcome = Raise("StructureError")

\* C4: when the last line is a branch line, the parse ends in
\* IncompleteSectionError, an outcome of its own, and returns no tree.
C4_IncompleteSectionError ==
    (/\ pc = "done"
     /\ \A i \in 1..Len(InputLines) : WellShaped(InputLines[i]) /\ NestedRight(InputLines, i)
     /\ IsBranch(InputLines[Len(InputLines)]))
        => outcome = Raise("IncompleteSectionError")

\* C5: when a line the parser reaches has no ':', the parse ends in
\* MalformedLineError carrying that line's number, and returns no tree.
C5_MalformedLineError ==
    \A i \in 1..Len(InputLines) :
        (/\ pc = "done"
         /\ Trim(InputLines[i]) # <<>>
         /\ ~HasColon(InputLines[i])
         /\ \A j \in 1..(i - 1) : WellShaped(InputLines[j]) /\ NestedRight(InputLines, j))
            => /\ outcome.kind = "raise"
               /\ outcome.exc = "MalformedLineError"
               /\ outcome.lineno = i

\* C6: the empty string ends in EmptyInputError, no other outcome.
C6_EmptyInputError ==
    (pc = "done" /\ resource_string = <<>>) => outcome = Raise("EmptyInputError")

\* C9: a leaf line consumes only itself: on a well-formed input every line's
\* name is bound exactly once in the returned tree, at the nesting level of
\* its indentation, in the order of the lines.
C9_EveryLineBoundOnce ==
    (pc = "done" /\ WellFormed(InputLines))
        => /\ outcome.kind = "return"
           /\ BoundNames(outcome.value, 0) =
                [i \in 1..Len(InputLines) |->
                    <<NameOf(InputLines[i]), LevelOf(InputLines, i)>>]

\* the activations on the stack work on ever shorter line sequences, and
\* there are never more of them than input lines
StrictlyShorter ==
    /\ \A i \in 2..Len(stack) : Len(stack[i].arr) < Len(stack[i - 1].arr)
    /\ Len(stack) <= Len(InputLines)
    /\ pc = "done" => outcome.kind \in {"raise", "return"}

\* C10: the parse ends with a tree or an error on every input: each
\* activation of _add_ansibilized_section works on a strictly shorter line
\* sequence than its caller, so there are never more activations than lines.
C10_Terminates == []StrictlyShorter /\ <>(pc = "done")

\* C10 happens: two nested recursive calls were made before the parse ended
C10_Witness == pc = "done" /\ Len(stack) >= 3

-----------------------------------------------------------------------------
(* Properties of the module *)

NoStateChange(cmds) == \A i \in 1..Len(cmds) : cmds[i].verb \notin StateChanging

\* C7: with state=present and the name of a resource the cluster already
\* has, the run issues no create, update or delete and exits with
\* changed=false.
C7_PresentExistingUntouched ==
    [][(/\ result = NoOutcome
        /\ params.state = "present"
        /\ params.name \in cluster)
          => /\ NoStateChange(issued')
             /\ result' = ExitJson(FALSE)]_vars

====
